---- MODULE Spec2Model ----
(***************************************************************************)
(* Model of deadlock_parry.py: the PunchGame object, main() and the loop   *)
(* of PunchGame.start().  Time is an integer count of clock units;         *)
(* UnitsPerMs units make one millisecond, so time.time() * 1000 is a       *)
(* clock value divided by UnitsPerMs.  Every step that calls time.time()   *)
(* first lets the clock advance, then reads it.                            *)
(***************************************************************************)
EXTENDS Integers, Sequences, FiniteSets, TLC

\* ---------------------------------------------------------------- bounds
UnitsPerMs == 2        \* clock resolution: units per millisecond
StepJump == 1          \* most the clock advances between two statements
MaxFrame == 1          \* most a short display.flip() advances the clock
MaxIters == 2          \* loop iterations explored
MaxEvents == 1         \* events returned by one pygame.event.get()
MaxRounds == 1         \* rounds resolved in the runs checked for progress

\* ------------------------------------------------------ program constants
DEFAULT_DELAY_MIN == 15
DEFAULT_DELAY_MAX == 240
DEFAULT_PARRY_WINDOW == 600
MsPerSec == 1000

K_f == "K_f"
K_c == "K_c"
K_ESCAPE == "K_ESCAPE"

PUNCH_SOUND == "punch"
PARRY_SOUND == "parry"
HIT_SOUND == "hit"

UnitsPerSec == MsPerSec * UnitsPerMs

\* ----------------------------------------------------------- input sets
\* <<--delay-min, --delay-max, --parry-window>>: seconds, seconds, ms
Configs == {<<0, 1, 1>>, <<1, 1, 1>>, <<1, 0, 1>>, <<0, 0, 0>>}
KeyNames == {"f", "c", "bogus"}
FrameJumps == (0..MaxFrame) \cup {UnitsPerSec}

QuitEvent == [type |-> "QUIT", key |-> "none", ctrl |-> FALSE]
KeyDown(k, c) == [type |-> "KEYDOWN", key |-> k, ctrl |-> c]
Events == {QuitEvent, KeyDown(K_f, FALSE), KeyDown(K_c, FALSE),
           KeyDown(K_c, TRUE), KeyDown(K_ESCAPE, FALSE)}
EventBatches == UNION {[1..n -> Events] : n \in 0..MaxEvents}

VARIABLES
  delay_min, delay_max, parry_window, parry_key,   \* configuration fields
  next_punch_time, punch_start_time, is_punching,  \* round state fields
  results,                                         \* self.results
  foreground,                                      \* the window is restored
  pc, run, did_parry, elapsed_time,                \* locals of start()
  random_delay,                                    \* local of schedule_punch
  clock,                                           \* time.time(), in units
  fx,            \* side effects requested in the current loop iteration
  tick_rs,       \* round state at the start of the current loop iteration
  tick_len,      \* len(results) at the start of the current loop iteration
  early_press,   \* the parry key was polled before the scheduled punch time
  quit_polled,   \* the events of this iteration hold a QUIT or a Ctrl+C
  key_polled,    \* the events of this iteration hold a KEYDOWN of parry_key
  key_name,      \* the name last passed to set_parry_key
  warned,        \* set_parry_key logged "Unknown key name"
  summary,       \* what log_results_summary last computed
  fx_failed,     \* a side-effect call raised
  iters          \* loop iterations completed

vars == <<delay_min, delay_max, parry_window, parry_key, next_punch_time,
          punch_start_time, is_punching, results, foreground, pc, run,
          did_parry, elapsed_time, random_delay, clock, fx, tick_rs,
          tick_len, early_press, quit_polled, key_polled, key_name, warned,
          summary, fx_failed, iters>>

cfgVars == <<delay_min, delay_max, parry_window, parry_key, key_name,
            warned>>

\* what PollEvents records about the iteration it starts
tickVars == <<tick_rs, tick_len, early_press, quit_polled, key_polled>>

\* ------------------------------------------------------------- helpers
Min(a, b) == IF a <= b THEN a ELSE b
Max(a, b) == IF a >= b THEN a ELSE b

\* ParryResult(success, response_time = 0)
ParryResult(success, response_time) ==
  [success |-> success, response_time |-> response_time]

\* pygame.key.key_code(name): the key of a known name, "ValueError" otherwise
key_code(name) ==
  CASE name = "f" -> K_f
    [] name = "c" -> K_c
    [] name = "escape" -> K_ESCAPE
    [] OTHER -> "ValueError"

\* set_parry_key without the except clause's fallback
set_parry_key_unchecked(old, name) == key_code(name)

\* set_parry_key: the new binding, the old one when the name is unknown
set_parry_key(old, name) ==
  IF key_code(name) = "ValueError" THEN old ELSE key_code(name)

\* uniform with an upper end one unit too far
uniform_over(a, b) ==
  LET lo == Min(a, b) * UnitsPerSec
      hi == Max(a, b) * UnitsPerSec
  IN  {lo, hi + 1}

\* random.uniform(a, b) * UnitsPerSec: a + (b - a) * random(), sampled at
\* both ends and just above the lower end
uniform(a, b) ==
  LET lo == Min(a, b) * UnitsPerSec
      hi == Max(a, b) * UnitsPerSec
  IN  {lo, hi} \cup (IF hi > lo THEN {lo + 1} ELSE {})

\* truncation instead of rounding
round_floor(n, k) == n \div k

\* rounding with ties away from zero
round_half_up(n, k) ==
  LET q == n \div k
      r == n % k
  IN  IF 2 * r < k THEN q ELSE q + 1

\* Python round(n / k): nearest integer, ties to the even one
round(n, k) ==
  LET q == n \div k
      r == n % k
  IN  IF 2 * r < k THEN q
      ELSE IF 2 * r > k THEN q + 1
      ELSE IF q % 2 = 0 THEN q ELSE q + 1

\* The round state the fields encode
RoundState ==
  IF is_punching THEN "Punching"
  ELSE IF next_punch_time < 0 THEN "Idle" ELSE "Scheduled"

\* the punch test without the comparison
PunchDue_always(t, npt) == TRUE

\* the punch test with a strict comparison
PunchDue_strict(t, npt) == t > npt

\* a punch test that never succeeds
PunchDue_never(t, npt) == FALSE

\* line 126: time.time() >= self._next_punch_time
PunchDue(t, npt) == t >= npt

\* the timeout test with a strict comparison
WindowElapsed_strict(elapsed, window) == elapsed > window * UnitsPerMs

\* line 134: elapsed_time_ms >= self.parry_window (elapsed in clock units)
WindowElapsed(elapsed, window) == elapsed >= window * UnitsPerMs

\* the two tests of lines 132-135 in the other order
ResolveBranch_timeout_first(dp, elapsed, window) ==
  IF WindowElapsed(elapsed, window) THEN "fail_parry"
  ELSE IF dp THEN "parry"
  ELSE "flip"

\* lines 132-135: which method the loop calls while a punch is active
ResolveBranch(dp, elapsed, window) ==
  IF dp THEN "parry"
  ELSE IF WindowElapsed(elapsed, window) THEN "fail_parry"
  ELSE "flip"

\* lines 121-129 as seen right after the event loop
AfterPoll(punching, npt) ==
  IF punching THEN "elapsed"
  ELSE IF npt < 0 THEN "schedule" ELSE "check"

\* an event dispatch whose K_c branch does not stop the loop
RECURSIVE Dispatch_ignore_ctrl_c(_, _, _)
Dispatch_ignore_ctrl_c(evs, key, acc) ==
  IF evs = <<>> THEN acc
  ELSE
    LET e == Head(evs)
        nxt ==
          IF e.type = "QUIT" THEN [acc EXCEPT !.run = FALSE]
          ELSE IF e.key = K_ESCAPE THEN [acc EXCEPT !.hides = @ + 1]
          ELSE IF e.key = K_c THEN acc
          ELSE IF e.key = key THEN [acc EXCEPT !.did_parry = TRUE]
          ELSE acc
    IN  Dispatch_ignore_ctrl_c(Tail(evs), key, nxt)

\* lines 107-119: the event dispatch, folded over one batch of events
RECURSIVE Dispatch(_, _, _)
Dispatch(evs, key, acc) ==
  IF evs = <<>> THEN acc
  ELSE
    LET e == Head(evs)
        nxt ==
          IF e.type = "QUIT" THEN [acc EXCEPT !.run = FALSE]
          ELSE IF e.key = K_ESCAPE THEN [acc EXCEPT !.hides = @ + 1]
          ELSE IF e.key = K_c
            THEN (IF e.ctrl THEN [acc EXCEPT !.run = FALSE] ELSE acc)
          ELSE IF e.key = key THEN [acc EXCEPT !.did_parry = TRUE]
          ELSE acc
    IN  Dispatch(Tail(evs), key, nxt)

\* an append that overwrites the last entry
AppendResult_overwrite(log, r) ==
  IF log = <<>> THEN <<r>> ELSE [log EXCEPT ![Len(log)] = r]

\* self.results.append(r)
AppendResult(log, r) == Append(log, r)

\* the sum of the response times of a list of results
RECURSIVE SumTimes(_)
SumTimes(rs) ==
  IF rs = <<>> THEN 0 ELSE Head(rs).response_time + SumTimes(Tail(rs))

\* line 193: [r for r in self.results if r.success]
successful_results(log) == SelectSeq(log, LAMBDA r : r.success)

\* summary before log_results_summary has been called
NoSummary ==
  [status |-> "none", num_total |-> 0, num_success |-> 0,
   avg_response |-> 0, success_rate |-> <<0, 1>>]

\* log_results_summary (lines 192-200): the numbers of the logged line.
\* success_rate is the fraction <<numerator, denominator>>; with an empty
\* log the division of line 199 raises and nothing is logged.
log_results_summary(log) ==
  LET succ == successful_results(log)
      num_total == Len(log)
      num_success == Len(succ)
      avg_response ==
        IF succ # <<>> THEN round(SumTimes(succ), Len(succ)) ELSE 0
  IN  [status |-> IF num_total = 0 THEN "ZeroDivisionError" ELSE "logged",
       num_total |-> num_total,
       num_success |-> num_success,
       avg_response |-> avg_response,
       success_rate |-> <<num_success, num_total>>]

ValidConfig ==
  /\ delay_min >= 0
  /\ delay_min <= delay_max
  /\ parry_window > 0

\* ---------------------------------------------------------------- Init
\* PunchGame.__init__ (lines 38-62); main() has not yet run
Init ==
  /\ delay_min = DEFAULT_DELAY_MIN
  /\ delay_max = DEFAULT_DELAY_MAX
  /\ parry_window = DEFAULT_PARRY_WINDOW
  /\ parry_key = K_f
  /\ next_punch_time = -1
  /\ punch_start_time = -1
  /\ is_punching = FALSE
  /\ results = <<>>
  /\ foreground = FALSE
  /\ pc = "main"
  /\ run = TRUE
  /\ did_parry = FALSE
  /\ elapsed_time = 0
  /\ random_delay = -1
  /\ clock = 0
  /\ fx = <<>>
  /\ tick_rs = "Idle"
  /\ tick_len = 0
  /\ early_press = FALSE
  /\ quit_polled = FALSE
  /\ key_polled = FALSE
  /\ key_name = "f"
  /\ warned = FALSE
  /\ summary = NoSummary
  /\ fx_failed = FALSE
  /\ iters = 0

\* ------------------------------------------------------------- actions
\* In every action f = 0 means that all side-effect calls return; f = n > 0
\* means that the n-th side-effect call of the step raises, and the
\* exception leaves start() and main() (there is no handler).

\* main(), lines 232-235: the three timing options are assigned unchecked
Main(dm, dx, pw) ==
  /\ pc = "main"
  /\ delay_min' = dm
  /\ delay_max' = dx
  /\ parry_window' = pw
  /\ pc' = "set_key"
  /\ UNCHANGED <<parry_key, key_name, warned, next_punch_time,
                 punch_start_time, is_punching, results, foreground, run,
                 did_parry, elapsed_time, random_delay, clock, fx, tickVars,
                 summary, fx_failed, iters>>

\* main(), line 236: set_parry_key (lines 64-69)
SetParryKey(name) ==
  /\ pc = "set_key"
  /\ key_name' = name
  /\ parry_key' = set_parry_key(parry_key, name)
  /\ warned' = (key_code(name) = "ValueError")
  /\ pc' = "start"
  /\ UNCHANGED <<delay_min, delay_max, parry_window, next_punch_time,
                 punch_start_time, is_punching, results, foreground, run,
                 did_parry, elapsed_time, random_delay, clock, fx, tickVars,
                 summary, fx_failed, iters>>

\* start() up to the first loop test (lines 76-102): the window is created
\* and minimized
Start(f) ==
  /\ pc = "start"
  /\ f \in 0..1
  /\ IF f = 0
       THEN /\ foreground' = FALSE
            /\ fx' = <<"hide">>
            /\ pc' = "poll"
            /\ fx_failed' = FALSE
       ELSE /\ foreground' = TRUE
            /\ fx' = <<>>
            /\ pc' = "crashed"
            /\ fx_failed' = TRUE
  /\ run' = TRUE
  /\ UNCHANGED <<cfgVars, next_punch_time, punch_start_time, is_punching,
                 results, did_parry, elapsed_time, random_delay, clock,
                 tickVars, summary, iters>>

\* lines 103-119: one pygame.event.get() and its dispatch
PollEvents(evs, f) ==
  /\ pc = "poll"
  /\ f \in 0..1
  /\ LET d == Dispatch(evs, parry_key,
                       [run |-> run, did_parry |-> FALSE, hides |-> 0])
     IN  /\ tick_rs' = RoundState
         /\ tick_len' = Len(results)
         /\ quit_polled' =
              \E i \in 1..Len(evs) :
                \/ evs[i].type = "QUIT"
                \/ evs[i].type = "KEYDOWN" /\ evs[i].key = K_c /\ evs[i].ctrl
         /\ key_polled' =
              \E i \in 1..Len(evs) :
                evs[i].type = "KEYDOWN" /\ evs[i].key = parry_key
         /\ early_press' = /\ f = 0
                           /\ d.did_parry
                           /\ RoundState = "Scheduled"
                           /\ clock < next_punch_time
         /\ IF f = 0
              THEN /\ run' = d.run
                   /\ did_parry' = d.did_parry
                   /\ fx' = [i \in 1..d.hides |-> "hide"]
                   /\ foreground' = IF d.hides > 0 THEN FALSE ELSE foreground
                   /\ pc' = AfterPoll(is_punching, next_punch_time)
                   /\ fx_failed' = FALSE
              ELSE /\ d.hides > 0
                   /\ run' = run
                   /\ did_parry' = FALSE
                   /\ fx' = <<>>
                   /\ foreground' = foreground
                   /\ pc' = "crashed"
                   /\ fx_failed' = TRUE
  /\ UNCHANGED <<cfgVars, next_punch_time, punch_start_time, is_punching,
                 results, elapsed_time, random_delay, clock, summary, iters>>

\* lines 121-123 and schedule_punch (lines 152-155)
SchedulePunch(d) ==
  /\ pc = "schedule"
  /\ random_delay' \in uniform(delay_min, delay_max)
  /\ clock' = clock + d
  /\ next_punch_time' = clock' + random_delay'
  /\ pc' = "check"
  /\ UNCHANGED <<cfgVars, punch_start_time, is_punching, results, foreground,
                 run, did_parry, elapsed_time, fx, tickVars, summary,
                 fx_failed, iters>>

\* line 126: the test that guards punch(); line 129 is false when it fails
CheckPunch(d) ==
  /\ pc = "check"
  /\ clock' = clock + d
  /\ pc' = IF PunchDue(clock', next_punch_time) THEN "punch" ELSE "flip"
  /\ UNCHANGED <<cfgVars, next_punch_time, punch_start_time, is_punching,
                 results, foreground, run, did_parry, elapsed_time,
                 random_delay, fx, tickVars, summary, fx_failed, iters>>

\* punch (lines 157-165): activate_window, play_sound, then the fields
Punch(d, f) ==
  /\ pc = "punch"
  /\ f \in 0..2
  /\ IF f = 0
       THEN /\ foreground' = TRUE
            /\ fx' = fx \o <<"show", PUNCH_SOUND>>
            /\ is_punching' = TRUE
            /\ clock' = clock + d
            /\ punch_start_time' = clock'
            /\ pc' = "elapsed"
            /\ fx_failed' = FALSE
       ELSE /\ foreground' = (f = 2)
            /\ fx' = IF f = 2 THEN fx \o <<"show">> ELSE fx
            /\ is_punching' = is_punching
            /\ clock' = clock
            /\ punch_start_time' = punch_start_time
            /\ pc' = "crashed"
            /\ fx_failed' = TRUE
  /\ UNCHANGED <<cfgVars, next_punch_time, results, run, did_parry,
                 elapsed_time, random_delay, tickVars, summary, iters>>

\* lines 129-135: elapsed_time_ms and the choice between parry and fail_parry
Elapsed(d) ==
  /\ pc = "elapsed"
  /\ clock' = clock + d
  /\ elapsed_time' = clock' - punch_start_time
  /\ pc' = ResolveBranch(did_parry, elapsed_time', parry_window)
  /\ UNCHANGED <<cfgVars, next_punch_time, punch_start_time, is_punching,
                 results, foreground, run, did_parry, random_delay, fx,
                 tickVars, summary, fx_failed, iters>>

\* a reset_punch that does not call deactivate_window
Resolve_no_hide(sound, f) ==
  /\ f \in 0..2
  /\ fx' = IF f = 1 THEN fx ELSE fx \o <<sound>>
  /\ is_punching' = IF f = 1 THEN is_punching ELSE FALSE
  /\ next_punch_time' = IF f = 1 THEN next_punch_time ELSE -1
  /\ foreground' = IF f = 0 THEN FALSE ELSE foreground
  /\ pc' = IF f = 0 THEN "flip" ELSE "crashed"
  /\ fx_failed' = (f # 0)
  /\ summary' = IF f = 0 THEN log_results_summary(results') ELSE summary

\* a deactivate_window that leaves the window where it is
Resolve_keep_window(sound, f) ==
  /\ f \in 0..2
  /\ fx' = IF f = 1 THEN fx
           ELSE IF f = 2 THEN fx \o <<sound>>
           ELSE fx \o <<sound, "hide">>
  /\ is_punching' = IF f = 1 THEN is_punching ELSE FALSE
  /\ next_punch_time' = IF f = 1 THEN next_punch_time ELSE -1
  /\ foreground' = foreground
  /\ pc' = IF f = 0 THEN "flip" ELSE "crashed"
  /\ fx_failed' = (f # 0)
  /\ summary' = IF f = 0 THEN log_results_summary(results') ELSE summary

\* The end of parry and fail_parry: play_sound(sound), reset_punch (lines
\* 167-171), log_results_summary.  f = 1: play_sound raises; f = 2:
\* deactivate_window raises
Resolve(sound, f) ==
  /\ f \in 0..2
  /\ fx' = IF f = 1 THEN fx
           ELSE IF f = 2 THEN fx \o <<sound>>
           ELSE fx \o <<sound, "hide">>
  /\ is_punching' = IF f = 1 THEN is_punching ELSE FALSE
  /\ next_punch_time' = IF f = 1 THEN next_punch_time ELSE -1
  /\ foreground' = IF f = 0 THEN FALSE ELSE foreground
  /\ pc' = IF f = 0 THEN "flip" ELSE "crashed"
  /\ fx_failed' = (f # 0)
  /\ summary' = IF f = 0 THEN log_results_summary(results') ELSE summary

\* parry (lines 173-181)
Parry(d, f) ==
  /\ pc = "parry"
  /\ clock' = clock + d
  /\ results' = AppendResult(results,
       ParryResult(TRUE, round(clock' - punch_start_time, UnitsPerMs)))
  /\ Resolve(PARRY_SOUND, f)
  /\ UNCHANGED <<cfgVars, punch_start_time, run, did_parry, elapsed_time,
                 random_delay, tickVars, iters>>

\* fail_parry (lines 183-190)
FailParry(f) ==
  /\ pc = "fail_parry"
  /\ results' = AppendResult(results, ParryResult(FALSE, 0))
  /\ Resolve(HIT_SOUND, f)
  /\ UNCHANGED <<cfgVars, punch_start_time, run, did_parry, elapsed_time,
                 random_delay, clock, tickVars, iters>>

\* line 137 and the loop test of line 102; the frame wait lets time pass
Flip(d) ==
  /\ pc = "flip"
  /\ run => iters + 1 < MaxIters
  /\ clock' = clock + d
  /\ iters' = iters + 1
  /\ pc' = IF run THEN "poll" ELSE "done"
  /\ UNCHANGED <<cfgVars, next_punch_time, punch_start_time, is_punching,
                 results, foreground, run, did_parry, elapsed_time,
                 random_delay, fx, tickVars, summary, fx_failed>>

\* ------------------------------------------------------- specifications
Next ==
  \/ \E c \in Configs : Main(c[1], c[2], c[3])
  \/ \E name \in KeyNames : SetParryKey(name)
  \/ Start(0)
  \/ \E evs \in EventBatches : PollEvents(evs, 0)
  \/ \E d \in 0..StepJump : SchedulePunch(d)
  \/ \E d \in 0..StepJump : CheckPunch(d)
  \/ \E d \in 0..StepJump : Punch(d, 0)
  \/ \E d \in 0..StepJump : Elapsed(d)
  \/ \E d \in 0..StepJump : Parry(d, 0)
  \/ FailParry(0)
  \/ \E d \in FrameJumps : Flip(d)

Spec == Init /\ [][Next]_vars

\* The same program when side-effect calls may raise
StartFx == Start(1)
PollEventsFx == \E evs \in EventBatches : PollEvents(evs, 1)
PunchFx == \E f \in 1..2 : Punch(0, f)
ParryFx == \E d \in 0..StepJump : \E f \in 1..2 : Parry(d, f)
FailParryFx == \E f \in 1..2 : FailParry(f)

NextFx == Next \/ StartFx \/ PollEventsFx \/ PunchFx \/ ParryFx \/ FailParryFx

SpecFx == Init /\ [][NextFx]_vars

\* The same program when its caller also calls log_results_summary itself,
\* before start() or after it has returned; a ZeroDivisionError of line 199
\* reaches that caller
CallLogResultsSummary ==
  /\ pc \in {"main", "done"}
  /\ summary' = log_results_summary(results)
  /\ pc' = IF summary'.status = "ZeroDivisionError" THEN "crashed" ELSE pc
  /\ UNCHANGED <<cfgVars, next_punch_time, punch_start_time, is_punching,
                 results, foreground, run, did_parry, elapsed_time,
                 random_delay, clock, fx, tickVars, fx_failed, iters>>

NextApi == Next \/ CallLogResultsSummary

SpecApi == Init /\ [][NextApi]_vars

\* The program left running for ever with no quit requested, the loop never
\* starved and frames that keep taking time.  iters is not counted; the
\* runs are cut after MaxRounds results, and while the scheduled punch is
\* further away than a short frame only the long frame is taken, the
\* iterations in between changing nothing but the clock.  A poll returns at
\* most one event and the time of an iteration is spent in display.flip().
LiveHorizon == 4 * MaxRounds * UnitsPerSec

LiveFrames ==
  IF RoundState = "Scheduled" /\ next_punch_time - clock > MaxFrame
    THEN {UnitsPerSec}
    ELSE FrameJumps

LiveBatches == {evs \in EventBatches : Len(evs) <= 1}

PollEventsLive ==
  \E evs \in LiveBatches : PollEvents(evs, 0) /\ ~quit_polled'

FlipLive(d) ==
  /\ pc = "flip"
  /\ d \in LiveFrames
  /\ Len(results) < MaxRounds
  /\ clock + d <= LiveHorizon
  /\ clock' = clock + d
  /\ pc' = "poll"
  /\ UNCHANGED <<cfgVars, next_punch_time, punch_start_time, is_punching,
                 results, foreground, run, did_parry, elapsed_time,
                 random_delay, fx, tickVars, summary, fx_failed, iters>>

\* a frame that takes time
FlipAdvance == \E d \in FrameJumps : d > 0 /\ FlipLive(d)

NextLive ==
  \/ \E c \in Configs : Main(c[1], c[2], c[3])
  \/ \E name \in KeyNames : SetParryKey(name)
  \/ Start(0)
  \/ PollEventsLive
  \/ SchedulePunch(0)
  \/ CheckPunch(0)
  \/ Punch(0, 0)
  \/ Elapsed(0)
  \/ Parry(0, 0)
  \/ FailParry(0)
  \/ \E d \in FrameJumps : FlipLive(d)

SpecLive ==
  Init /\ [][NextLive]_vars /\ WF_vars(NextLive) /\ SF_vars(FlipAdvance)

TypeOK ==
  /\ pc \in {"main", "set_key", "start", "poll", "schedule", "check", "punch", "elapsed",
             "parry", "fail_parry", "flip", "done", "crashed"}
  /\ is_punching \in BOOLEAN
  /\ Len(results) <= MaxIters
  /\ clock >= 0

\* ------------------------------------------------------------ properties
InFx(x) == \E i \in 1..Len(fx) : fx[i] = x
LastResult == results[Len(results)]
WindowUnits == parry_window * UnitsPerMs
\* delay_min > delay_max or parry_window <= 0
InvalidTiming == delay_min > delay_max \/ parry_window <= 0

\* C1: the round state changes only Idle -> Scheduled -> Punching -> Idle;
\* Scheduled -> Punching only when the time read by the loop is at or past
\* the scheduled punch time, Punching -> Idle only when the parry key was
\* polled or the elapsed time has reached the parry window.
C1_OnlyCycle ==
  [][ \/ RoundState' = RoundState
      \/ /\ RoundState = "Idle"
         /\ RoundState' = "Scheduled"
      \/ /\ RoundState = "Scheduled"
         /\ RoundState' = "Punching"
         /\ clock >= next_punch_time
      \/ /\ RoundState = "Punching"
         /\ RoundState' = "Idle"
         /\ (did_parry \/ elapsed_time >= WindowUnits) ]_vars

\* A round went through the whole cycle and the next one is scheduled.
C1_Witness ==
  /\ ValidConfig
  /\ Len(results) = 1
  /\ tick_rs = "Idle"
  /\ tick_len = 1
  /\ RoundState = "Scheduled"
  /\ pc = "flip"

\* C2: a parry key press polled while Scheduled, before the scheduled punch
\* time, records no success, also when the punch fires later in the same
\* loop iteration.
C2_EarlyPressNoEffect ==
  [][ early_press =>
        ~(Len(results') = Len(results) + 1 /\ results'[Len(results')].success)
    ]_vars

\* C3: under a valid configuration every success in the results has a
\* response time of at most parry_window milliseconds.
C3_SuccessWithinWindow ==
  ValidConfig =>
    \A i \in 1..Len(results) :
      results[i].success => results[i].response_time <= parry_window

\* C4: while Punching, when the elapsed time equals the parry window
\* exactly and the parry key was polled in that iteration, the loop calls
\* parry, and parry appends a success.
C4_TieIsSuccess ==
  [][ /\ (pc = "elapsed" /\ did_parry
            /\ clock' - punch_start_time = WindowUnits) => pc' = "parry"
      /\ pc = "parry" =>
           /\ Len(results') = Len(results) + 1
           /\ results'[Len(results')].success ]_vars

\* The iteration that polled the key at an elapsed time equal to the window
\* has recorded a success.
C4_Witness ==
  /\ ValidConfig
  /\ pc = "flip"
  /\ did_parry
  /\ elapsed_time = WindowUnits
  /\ Len(results) = tick_len + 1
  /\ LastResult.success
  /\ tick_rs = "Punching"

\* C5: while Punching with no parry key polled, an elapsed time of at least
\* parry_window ms makes the loop call fail_parry, which appends exactly one
\* failure with response time 0, requests the hit sound (then hides the
\* window) and returns the state to Idle; a smaller elapsed time changes
\* nothing.
C5_TimeoutFails ==
  [][ /\ (pc = "elapsed" /\ ~did_parry) =>
           IF clock' - punch_start_time >= WindowUnits
             THEN pc' = "fail_parry"
             ELSE /\ pc' = "flip"
                  /\ UNCHANGED <<results, is_punching, next_punch_time,
                                 punch_start_time, fx, foreground>>
      /\ pc = "fail_parry" =>
           /\ results' = Append(results, [success |-> FALSE,
                                          response_time |-> 0])
           /\ fx' = fx \o <<HIT_SOUND, "hide">>
           /\ RoundState = "Punching"
           /\ RoundState' = "Idle" ]_vars

\* A punch of an earlier iteration has timed out under a valid configuration.
C5_Witness ==
  /\ ValidConfig
  /\ pc = "flip"
  /\ tick_rs = "Punching"
  /\ ~did_parry
  /\ Len(results) = tick_len + 1
  /\ ~LastResult.success
  /\ InFx(HIT_SOUND)
  /\ RoundState = "Idle"

\* C6: the results grow by exactly one entry at the end, with the earlier
\* entries untouched, in every step that takes the round from Punching to
\* Idle, and are left alone by every other step.
C6_AppendOnly ==
  [][ IF RoundState = "Punching" /\ RoundState' = "Idle"
        THEN /\ Len(results') = Len(results) + 1
             /\ SubSeq(results', 1, Len(results)) = results
        ELSE results' = results ]_vars

\* A second round has just been resolved and logged after the first.
C6_Witness ==
  /\ ValidConfig
  /\ Len(results) = 2
  /\ tick_len = 1
  /\ results[1].response_time # results[2].response_time
  /\ RoundState = "Idle"

\* C7: whether or not a side-effect call fails, punch() ends Punching and
\* parry() and fail_parry() end Idle with exactly one more outcome.
C7_SideEffectFailureContained ==
  [][ /\ pc = "punch" => RoundState' = "Punching"
      /\ pc \in {"parry", "fail_parry"} =>
           /\ RoundState' = "Idle"
           /\ Len(results') = Len(results) + 1 ]_vars

\* C8: with delay_min > delay_max or parry_window <= 0 the program never
\* gets past main(): the loop is not entered and no punch is scheduled.
C8_InvalidConfigRejected ==
  InvalidTiming => (pc = "main" /\ RoundState = "Idle")

\* C9: under a valid configuration an iteration that begins Idle ends
\* Scheduled with no outcome, no punch sound and no window activation.
C9_IdleTickOnlySchedules ==
  (ValidConfig /\ pc = "flip" /\ tick_rs = "Idle") =>
    /\ RoundState = "Scheduled"
    /\ Len(results) = tick_len
    /\ ~InFx(PUNCH_SOUND)
    /\ ~InFx("show")

\* C9 amended: an iteration that begins Idle sets the punch time to the time
\* read by schedule_punch plus the drawn delay; when the time read by the
\* test of line 126 is before the punch time the iteration ends Scheduled
\* with no outcome, no punch sound and no window activation, and otherwise
\* punch() runs in the same iteration.
C9_IdleTickAmended ==
  [][ /\ (pc = "schedule" /\ tick_rs = "Idle") =>
           /\ RoundState = "Idle"
           /\ RoundState' = "Scheduled"
           /\ next_punch_time' = clock' + random_delay'
           /\ UNCHANGED <<results, fx, foreground>>
      /\ (pc = "check" /\ tick_rs = "Idle") =>
           IF clock' < next_punch_time
             THEN /\ pc' = "flip"
                  /\ RoundState' = "Scheduled"
                  /\ Len(results') = tick_len
                  /\ ~InFx(PUNCH_SOUND)'
                  /\ ~InFx("show")'
             ELSE pc' = "punch"
      /\ (pc = "punch" /\ tick_rs = "Idle") =>
           /\ RoundState' = "Punching"
           /\ fx' = fx \o <<"show", PUNCH_SOUND>> ]_vars

\* An iteration that began Idle with delay_min = 0 has ended Scheduled.
C9_Witness ==
  /\ ValidConfig
  /\ delay_min = 0
  /\ pc = "flip"
  /\ tick_rs = "Idle"
  /\ RoundState = "Scheduled"
  /\ clock < next_punch_time
  /\ Len(results) = tick_len

\* C10: under a valid configuration every Idle -> Scheduled step draws a
\* delay between delay_min and delay_max seconds and sets the punch time to
\* the time it read plus that delay, and an active punch started no earlier
\* than delay_min seconds after it was scheduled.
C10_DelayInRange ==
  [][ ValidConfig =>
        /\ (RoundState = "Idle" /\ RoundState' = "Scheduled") =>
             /\ random_delay' >= delay_min * UnitsPerSec
             /\ random_delay' <= delay_max * UnitsPerSec
             /\ next_punch_time' >= clock' + delay_min * UnitsPerSec
             /\ next_punch_time' <= clock' + delay_max * UnitsPerSec
        /\ RoundState' = "Punching" =>
             punch_start_time' >=
               (next_punch_time' - random_delay') + delay_min * UnitsPerSec
    ]_vars

\* A punch is active under a configuration with a positive delay_min.
C10_Witness ==
  /\ ValidConfig
  /\ delay_min > 0
  /\ RoundState = "Punching"
  /\ punch_start_time >= delay_min * UnitsPerSec

\* the requests of fx that are not "hide": window activations and sounds
Loud(q) == SelectSeq(q, LAMBDA x : x # "hide")
\* n / UnitsPerMs rounded to t, the nearest integer, a tie going to the even
IsRounded(t, n, k) ==
  /\ 2 * (t * k - n) <= k
  /\ 2 * (n - t * k) <= k
  /\ (2 * (t * k - n) = k \/ 2 * (n - t * k) = k) => t % 2 = 0

\* C12: the step Scheduled -> Punching requests showing the window and then
\* the punch sound; the step Punching -> Idle requests the parry sound (on a
\* success) or the hit sound (on a failure) and then hiding the window; the
\* step Idle -> Scheduled requests nothing, and no other step requests a
\* window activation or a sound.
C12_TransitionSideEffects ==
  [][ /\ (RoundState = "Scheduled" /\ RoundState' = "Punching") =>
           fx' = fx \o <<"show", PUNCH_SOUND>>
      /\ (RoundState = "Punching" /\ RoundState' = "Idle") =>
           /\ Len(results') = Len(results) + 1
           /\ fx' = fx \o <<IF results'[Len(results')].success
                               THEN PARRY_SOUND ELSE HIT_SOUND, "hide">>
      /\ (RoundState = "Idle" /\ RoundState' = "Scheduled") => fx' = fx
      /\ RoundState' = RoundState =>
           (Loud(fx') = Loud(fx) \/ Loud(fx') = <<>>) ]_vars

\* One iteration fired a punch and resolved it by a parry.
C12_Witness ==
  /\ pc = "flip"
  /\ fx = <<"show", PUNCH_SOUND, PARRY_SOUND, "hide">>
  /\ RoundState = "Idle"

\* C13: a polled QUIT or Ctrl+C clears the run flag, nothing else clears it
\* and nothing sets it again; with the flag cleared no further iteration
\* starts: the iteration that polled the quit runs to its end, the loop test
\* fails and nothing runs after it.
C13_QuitStopsLoop ==
  [][ /\ (pc = "poll" /\ quit_polled') => ~run'
      /\ (run /\ ~run') => (pc = "poll" /\ quit_polled')
      /\ ~run => (~run' /\ pc' # "poll" /\ iters' <= iters + 1)
      /\ (~run /\ pc = "flip") => pc' = "done"
      /\ pc # "done" ]_vars

\* The loop has ended after an iteration that polled a quit and still
\* resolved its round.
C13_Witness ==
  /\ pc = "done"
  /\ quit_polled
  /\ ~run
  /\ Len(results) = tick_len + 1

\* C16: while Punching, an iteration that polled the parry key calls parry,
\* which appends a success whose response time is the time since the punch
\* start, read anew by parry, in milliseconds rounded to the nearest integer
\* (a tie to the even one), requests the parry sound and then the hiding of
\* the window, and returns the state to Idle.
C16_ParryRecordsRoundedTime ==
  [][ /\ (pc = "elapsed" /\ did_parry) => pc' = "parry"
      /\ pc = "parry" =>
           /\ RoundState = "Punching"
           /\ Len(results') = Len(results) + 1
           /\ SubSeq(results', 1, Len(results)) = results
           /\ results'[Len(results')].success
           /\ IsRounded(results'[Len(results')].response_time,
                        clock' - punch_start_time, UnitsPerMs)
           /\ fx' = fx \o <<PARRY_SOUND, "hide">>
           /\ RoundState' = "Idle" ]_vars

\* A parry 1.5 ms after the punch start has been recorded as 2 ms and is
\* the whole summary.
C16_Witness ==
  /\ pc = "flip"
  /\ tick_rs = "Punching"
  /\ did_parry
  /\ results = <<[success |-> TRUE, response_time |-> 2]>>
  /\ 2 * (clock - punch_start_time) = 3 * UnitsPerMs
  /\ summary.num_total = 1
  /\ summary.num_success = 1
  /\ summary.avg_response = 2

\* C17: set_parry_key with a name that key_code does not know logs a
\* warning, leaves parry_key and every other field as they were and lets
\* main() go on to start(); with a known name it binds that key.
C17_UnknownKeyKeepsBinding ==
  [][ pc = "set_key" =>
        /\ pc' = "start"
        /\ IF key_name' \in {"f", "c", "escape"}
             THEN ~warned' /\ parry_key' = key_code(key_name')
             ELSE /\ warned'
                  /\ parry_key' = parry_key
                  /\ UNCHANGED <<delay_min, delay_max, parry_window,
                                 next_punch_time, punch_start_time,
                                 is_punching, results, foreground, run,
                                 did_parry, clock>> ]_vars

\* The loop runs with the default key after an unknown name was given.
C17_Witness ==
  /\ key_name = "bogus"
  /\ warned
  /\ parry_key = K_f
  /\ pc = "flip"
  /\ did_parry

\* C19: an iteration that begins Punching and polls a KEYDOWN of the
\* configured parry key sets did_parry and records a success.
C19_ParryKeyRecognised ==
  (pc = "flip" /\ tick_rs = "Punching" /\ key_polled) =>
    /\ did_parry
    /\ Len(results) = tick_len + 1
    /\ LastResult.success

\* C20: every iteration ends with the window in the foreground only if a
\* punch is active; the window is minimized before the first iteration, only
\* punch() brings it to the foreground, every Punching -> Idle step and
\* every polled Escape minimizes it, and the event dispatch changes neither
\* the round state nor the results.
C20_WindowFollowsPunch ==
  [][ /\ pc' = "flip" => (foreground' => is_punching')
      /\ pc = "start" => ~foreground'
      /\ (~foreground /\ foreground') => pc = "punch"
      /\ (RoundState = "Punching" /\ RoundState' = "Idle") => ~foreground'
      /\ pc = "poll" =>
           /\ UNCHANGED <<is_punching, next_punch_time, punch_start_time,
                          results>>
           /\ InFx("hide")' => ~foreground'
           /\ ~InFx("hide")' => foreground' = foreground ]_vars

\* Escape has minimized the window while the punch stays active.
C20_Witness ==
  /\ pc = "flip"
  /\ tick_rs = "Punching"
  /\ RoundState = "Punching"
  /\ InFx("hide")
  /\ ~foreground
  /\ Len(results) = tick_len

\* the successes among the results, by position
Successes == {i \in 1..Len(results) : results[i].success}
\* the sum of the response times at a set of positions
RECURSIVE TimesAt(_)
TimesAt(I) ==
  IF I = {} THEN 0
  ELSE LET i == CHOOSE j \in I : TRUE
       IN  results[i].response_time + TimesAt(I \ {i})
\* what every logged summary says about the counts
SummaryCounts ==
  /\ summary.num_total = Len(results)
  /\ summary.num_success = Cardinality(Successes)
  /\ summary.success_rate = <<Cardinality(Successes), Len(results)>>
  /\ Len(results) > 0

\* C14: the logged summary has total = len(results), successes = the number
\* of successful results, success_rate = successes / total, and an average
\* response that is exactly the arithmetic mean of the successful response
\* times, 0 when there is none.
C14_SummaryIsExactMean ==
  summary.status = "logged" =>
    /\ SummaryCounts
    /\ summary.avg_response * Cardinality(Successes) = TimesAt(Successes)

\* C14 amended: as C14, but the average response is the arithmetic mean of
\* the successful response times rounded to the nearest integer, a tie
\* going to the even one, and 0 when there is no success.
C14_SummaryIsRoundedMean ==
  summary.status = "logged" =>
    /\ SummaryCounts
    /\ IF Successes = {} THEN summary.avg_response = 0
       ELSE IsRounded(summary.avg_response, TimesAt(Successes),
                      Cardinality(Successes))

\* Two successes of 0 ms and 1 ms are summarised with an average of 0 ms.
C14_Witness ==
  /\ summary.status = "logged"
  /\ summary.num_success = 2
  /\ TimesAt(Successes) = 1
  /\ summary.avg_response = 0

\* C15: log_results_summary with no recorded round does not fail and gives
\* total = 0 and a success rate of 0.
C15_EmptySummaryDefined ==
  (summary.status # "none" /\ results = <<>>) =>
    /\ summary.status = "logged"
    /\ summary.num_total = 0
    /\ summary.success_rate[1] = 0

====
